---- MODULE Spec2Model ----
(***************************************************************************)
(* The edge DNS resolver of services/snrl-ai-edge/app.py: the TTL cache,   *)
(* the prediction index, the backend client, resolve_domain and the DNS    *)
(* responder that calls it.                                                *)
(*                                                                         *)
(* Strings the code inspects (domain names, IP literals) are sequences of  *)
(* one-token strings.  Time is in whole seconds.  Similarity scores and    *)
(* the similarity threshold are in units of 1/10000.  A Python None, an    *)
(* absent key and an empty dict are all the empty function: the code only  *)
(* ever tests them for truthiness.  An absent or empty string is "", an    *)
(* absent or zero ttl is 0, for the same reason.                           *)
(***************************************************************************)
EXTENDS Integers, Sequences, FiniteSets, TLC

VARIABLES config, cache, qdrant, stats, clock, call, calls, lastFetch,
          httpCall,
          dnsServer, dnsResolver, dnsLock, servers, op,
          threads, incs,
          component,
          mem

\* the HTTP request in hand
web == <<httpCall>>

\* the DNS listener: the handle and the resolver EdgeState holds, the holder
\* of _dns_lock, the servers constructed so far, and where each caller of
\* start_dns and stop_dns stands
lifecycle == <<dnsServer, dnsResolver, dnsLock, servers, op>>

\* the DNS handler threads inside resolve_domain, and the number of times
\* each counter's increment statement has been executed
handlers == <<threads, incs>>

\* the vector component embed_domain computed last
embedding == <<component>>

\* the payload dicts as Python objects
objects == <<mem>>

vars == <<config, cache, qdrant, stats, clock, call, calls, lastFetch,
          web, lifecycle, handlers, embedding, objects>>

-----------------------------------------------------------------------------
(* Bounds of the model *)

\* the clock runs from 0 to MaxTime
MaxTime == 2

\* number of handler invocations in a run
MaxCalls == 3

-----------------------------------------------------------------------------
(* Config.__init__: the defaults of the environment variables *)

DefaultCacheTtl == 45

DefaultSemanticThreshold == 7200

EdgeRegion == "unknown"

\* similarity thresholds a deployment is configured with: the default, and
\* one unit above the score of "a" against "b"
Thresholds == {DefaultSemanticThreshold, 9298}

\* VOIKE_API_KEY: unset ("") or set
ApiKeys == {"", "key"}

Configs ==
  [api_key : ApiKeys, region : {EdgeRegion}, cache_ttl : {DefaultCacheTtl},
   semantic_threshold : Thresholds]

-----------------------------------------------------------------------------
(* Python values *)

None == <<>>

Truthy(d) == DOMAIN d # {}

\* dict.get(key): None when the key is absent
Get(d, key) == IF key \in DOMAIN d THEN d[key] ELSE None

\* x or y, on strings
OrStr(x, y) == IF x # "" THEN x ELSE y

\* dict.get(key) for a string-valued key: "" when the key is absent
GetStr(d, key) == IF key \in DOMAIN d THEN d[key] ELSE ""

\* x or y, on integers
OrInt(x, y) == IF x # 0 THEN x ELSE y

\* dict.get(key) for an integer-valued key: 0 when the key is absent
GetInt(d, key) == IF key \in DOMAIN d THEN d[key] ELSE 0

\* substring in string
Contains(s, tok) == \E i \in DOMAIN s : s[i] = tok

\* str.lower, one character
LowerChar(c) ==
  CASE c = "A" -> "a"
    [] c = "B" -> "b"
    [] OTHER -> c

\* str.lower
Lower(s) == [i \in DOMAIN s |-> LowerChar(s[i])]

RECURSIVE RStripDots(_)
\* str.rstrip('.')
RStripDots(s) ==
  IF s = <<>> \/ s[Len(s)] # "."
  THEN s
  ELSE RStripDots(SubSeq(s, 1, Len(s) - 1))

-----------------------------------------------------------------------------
(* vector_id, embed_domain and the index's cosine score *)

\* vector_id: the leading 24 bits of int.from_bytes(sha256(domain)[:8]),
\* for the names the queries of the model are made of
vector_id(domain) ==
  CASE domain = <<"a">> -> 13277057
    [] domain = <<"b">> -> 4072424
    [] domain = <<"A">> -> 5610218

\* cosine similarity of embed_domain(x) and embed_domain(y), in 1/10000,
\* rounded down: sha256("a") against sha256("b") gives 0.929777
Score(x, y) ==
  IF x = y THEN 10000 ELSE 9297

-----------------------------------------------------------------------------
(* Inputs *)

\* str(request.q.qname): a DNS name ends with the root dot
QNames == {<<"a", ".">>, <<"A", ".">>, <<"b", ".">>}

QTypes == {"A", "AAAA", "TXT", "ANY"}

IPv4 == <<"10", ".", "0", ".", "0", ".", "1">>

IPv6 == <<"2001", ":", "db8", ":", ":", "1">>

\* bodies of a successful POST /snrl/resolve
Responses ==
  { [candidates |-> <<[ip |-> IPv4], [ip |-> IPv6]>>, ttl |-> 1,
     signature |-> "sig", trustAnchor |-> "anchor"],
    [candidates |-> <<>>, ttl |-> 0, signature |-> "", trustAnchor |-> "",
     meta |-> [signature |-> "msig"]] }

\* the seconds a backend HTTP call takes
Delays == {0, 1}

\* what session.post does: it raises (connection error, timeout), or it
\* returns a response with a status and a body
HttpOutcomes ==
  {[raised |-> TRUE, status |-> 0, body |-> None]}
    \cup {[raised |-> FALSE, status |-> 503, body |-> None]}
    \cup [raised : {FALSE}, status : {200}, body : Responses]

\* the outcomes of the environment during one resolve_domain call
Envs ==
  [searchOk : BOOLEAN, http : HttpOutcomes, delay : Delays,
   upsertOk : BOOLEAN]

-----------------------------------------------------------------------------
(* EdgeState *)

\* self.stats[key] += 1
Inc(st, key) == [st EXCEPT ![key] = @ + 1]

\* a resolve_domain that forgets to lowercase the name
Normalize_noLower(domain) == RStripDots(domain)

\* resolve_domain: normalized = domain.rstrip('.').lower()
Normalize(domain) == Lower(RStripDots(domain))

\* a cache test that drops an entry one second before it expires
CacheLive_early(cached, now) == Truthy(cached) /\ cached.expires_at > now + 1

\* resolve_domain: cached and cached['expires_at'] > now
CacheLive(cached, now) == Truthy(cached) /\ cached.expires_at > now

\* qdrant.search(query_vector=embed_domain(domain), limit=1): the stored
\* point nearest to the query, with its score; no hit on an empty collection
Search(points, domain) ==
  IF DOMAIN points = {}
  THEN <<>>
  ELSE LET best == CHOOSE i \in DOMAIN points :
                     \A j \in DOMAIN points :
                       Score(domain, points[j].payload.domain)
                         <= Score(domain, points[i].payload.domain)
       IN <<[id |-> best,
             score |-> Score(domain, points[best].payload.domain),
             payload |-> points[best].payload]>>

\* a score test that turns down a hit scoring exactly the threshold
PredictionRejected_strict(payload, expires_at, score, now, threshold) ==
  ~Truthy(payload) \/ expires_at <= now \/ score <= threshold

\* an expiry test that lets through a record expiring right now
PredictionRejected_lax(payload, expires_at, score, now, threshold) ==
  ~Truthy(payload) \/ expires_at < now \/ score < threshold

\* _predict_from_semantics: the test that discards the nearest hit
PredictionRejected(payload, expires_at, score, now, threshold) ==
  ~Truthy(payload) \/ expires_at <= now \/ score < threshold

\* a _predict_from_semantics that gives the prediction a lifetime of its own
PredictFromSemantics_renewed(cfg, points, st, domain, now, searchOk) ==
  IF ~searchOk
  THEN [predicted |-> None, stats |-> Inc(st, "errors"), accepted |-> FALSE]
  ELSE LET hits == Search(points, domain) IN
    IF hits = <<>>
    THEN [predicted |-> None, stats |-> st, accepted |-> FALSE]
    ELSE LET hit == hits[1]
             payload == Get(hit.payload, "payload")
             expires_at == GetInt(hit.payload, "expires_at")
         IN IF PredictionRejected(payload, expires_at, hit.score, now,
                                  cfg.semantic_threshold)
            THEN [predicted |-> None, stats |-> st, accepted |-> FALSE]
            ELSE [predicted |->
                    [payload |-> ("predicted" :> TRUE) @@ payload,
                     expires_at |-> now + cfg.cache_ttl],
                  stats |-> st, accepted |-> TRUE]

\* a _predict_from_semantics that hands out the stored payload unmarked
PredictFromSemantics_unmarked(cfg, points, st, domain, now, searchOk) ==
  IF ~searchOk
  THEN [predicted |-> None, stats |-> Inc(st, "errors"), accepted |-> FALSE]
  ELSE LET hits == Search(points, domain) IN
    IF hits = <<>>
    THEN [predicted |-> None, stats |-> st, accepted |-> FALSE]
    ELSE LET hit == hits[1]
             payload == Get(hit.payload, "payload")
             expires_at == GetInt(hit.payload, "expires_at")
         IN IF PredictionRejected(payload, expires_at, hit.score, now,
                                  cfg.semantic_threshold)
            THEN [predicted |-> None, stats |-> st, accepted |-> FALSE]
            ELSE [predicted |->
                    [payload |-> payload, expires_at |-> expires_at],
                  stats |-> st, accepted |-> TRUE]

\* a _predict_from_semantics that swallows a search failure uncounted
PredictFromSemantics_uncounted(cfg, points, st, domain, now, searchOk) ==
  IF ~searchOk
  THEN [predicted |-> None, stats |-> st, accepted |-> FALSE]
  ELSE LET hits == Search(points, domain) IN
    IF hits = <<>>
    THEN [predicted |-> None, stats |-> st, accepted |-> FALSE]
    ELSE LET hit == hits[1]
             payload == Get(hit.payload, "payload")
             expires_at == GetInt(hit.payload, "expires_at")
         IN IF PredictionRejected(payload, expires_at, hit.score, now,
                                  cfg.semantic_threshold)
            THEN [predicted |-> None, stats |-> st, accepted |-> FALSE]
            ELSE [predicted |->
                    [payload |-> ("predicted" :> TRUE) @@ payload,
                     expires_at |-> expires_at],
                  stats |-> st, accepted |-> TRUE]

\* _predict_from_semantics
PredictFromSemantics(cfg, points, st, domain, now, searchOk) ==
  IF ~searchOk
  THEN [predicted |-> None, stats |-> Inc(st, "errors"), accepted |-> FALSE]
  ELSE LET hits == Search(points, domain) IN
    IF hits = <<>>
    THEN [predicted |-> None, stats |-> st, accepted |-> FALSE]
    ELSE LET hit == hits[1]
             payload == Get(hit.payload, "payload")
             expires_at == GetInt(hit.payload, "expires_at")
         IN IF PredictionRejected(payload, expires_at, hit.score, now,
                                  cfg.semantic_threshold)
            THEN [predicted |-> None, stats |-> st, accepted |-> FALSE]
            ELSE [predicted |->
                    [payload |-> ("predicted" :> TRUE) @@ payload,
                     expires_at |-> expires_at],
                  stats |-> st, accepted |-> TRUE]

\* a client that never checks the status of the response
RaiseForStatus_never(status) == FALSE

\* response.raise_for_status()
RaiseForStatus(status) == status >= 400 /\ status < 600

\* _fetch_from_backend: the payload with meta.edgeRegion and meta.cachedAt
Annotate(cfg, payload, now) ==
  LET meta == Get(payload, "meta")
      stamped == ("edgeRegion" :> cfg.region) @@ ("cachedAt" :> now) @@ meta
  IN ("meta" :> stamped) @@ payload

\* a _fetch_from_backend that posts without an API key
FetchFromBackend_noKeyCheck(cfg, st, domain, http, now) ==
  IF http.raised \/ RaiseForStatus(http.status)
  THEN [raised |-> TRUE, record |-> None, stats |-> Inc(st, "errors"),
        posts |-> 1]
  ELSE LET payload == http.body
           ttl == OrInt(GetInt(payload, "ttl"), cfg.cache_ttl)
           expires_at == now + ttl
       IN [raised |-> FALSE,
           record |-> [payload |-> Annotate(cfg, payload, now),
                       expires_at |-> expires_at],
           stats |-> st, posts |-> 1]

\* a _fetch_from_backend that ignores the ttl of the response
FetchFromBackend_defaultTtl(cfg, st, domain, http, now) ==
  IF cfg.api_key = ""
  THEN [raised |-> TRUE, record |-> None, stats |-> st, posts |-> 0]
  ELSE IF http.raised \/ RaiseForStatus(http.status)
  THEN [raised |-> TRUE, record |-> None, stats |-> Inc(st, "errors"),
        posts |-> 1]
  ELSE LET payload == http.body
           expires_at == now + cfg.cache_ttl
       IN [raised |-> FALSE,
           record |-> [payload |-> Annotate(cfg, payload, now),
                       expires_at |-> expires_at],
           stats |-> st, posts |-> 1]

\* _fetch_from_backend; now is time.time() once the response is there
FetchFromBackend(cfg, st, domain, http, now) ==
  IF cfg.api_key = ""
  THEN [raised |-> TRUE, record |-> None, stats |-> st, posts |-> 0]
  ELSE IF http.raised \/ RaiseForStatus(http.status)
  THEN [raised |-> TRUE, record |-> None, stats |-> Inc(st, "errors"),
        posts |-> 1]
  ELSE LET payload == http.body
           ttl == OrInt(GetInt(payload, "ttl"), cfg.cache_ttl)
           expires_at == now + ttl
       IN [raised |-> FALSE,
           record |-> [payload |-> Annotate(cfg, payload, now),
                       expires_at |-> expires_at],
           stats |-> st, posts |-> 1]

\* a _persist_prediction that gives every write a point id of its own
PersistPrediction_freshId(points, st, domain, record, upsertOk) ==
  IF upsertOk
  THEN [points |->
          ((vector_id(domain) + Cardinality(DOMAIN points)) :>
             [payload |-> [domain |-> domain,
                           expires_at |-> record.expires_at,
                           payload |-> record.payload]]) @@ points,
        stats |-> st]
  ELSE [points |-> points, stats |-> Inc(st, "errors")]

\* a _persist_prediction that drops a failed write uncounted
PersistPrediction_uncounted(points, st, domain, record, upsertOk) ==
  IF upsertOk
  THEN [points |->
          (vector_id(domain) :>
             [payload |-> [domain |-> domain,
                           expires_at |-> record.expires_at,
                           payload |-> record.payload]]) @@ points,
        stats |-> st]
  ELSE [points |-> points, stats |-> st]

\* _persist_prediction
PersistPrediction(points, st, domain, record, upsertOk) ==
  IF upsertOk
  THEN [points |->
          (vector_id(domain) :>
             [payload |-> [domain |-> domain,
                           expires_at |-> record.expires_at,
                           payload |-> record.payload]]) @@ points,
        stats |-> st]
  ELSE [points |-> points, stats |-> Inc(st, "errors")]

\* resolve_domain.  now is time.time() on entry; env holds what the index
\* and the backend do during the call.  The result carries the state the
\* call leaves, what it returns or that it raised, and which of the index
\* search, the backend POST and the index upsert it issued.
ResolveDomain(cfg, entries, points, st, domain, now, env) ==
  LET normalized == Normalize(domain)
      cached == Get(entries, normalized)
  IN IF CacheLive(cached, now)
     THEN [cache |-> entries, points |-> points,
           stats |-> Inc(st, "cacheHits"),
           raised |-> FALSE, payload |-> cached.payload,
           expires_at |-> cached.expires_at, path |-> "cache",
           searches |-> 0, posts |-> 0, upserts |-> 0, elapsed |-> 0]
     ELSE LET p == PredictFromSemantics(cfg, points, st, normalized, now,
                                        env.searchOk)
          IN IF Truthy(p.predicted)
             THEN [cache |-> (normalized :> p.predicted) @@ entries,
                   points |-> points,
                   stats |-> Inc(p.stats, "predictedHits"),
                   raised |-> FALSE, payload |-> p.predicted.payload,
                   expires_at |-> p.predicted.expires_at,
                   path |-> "predicted",
                   searches |-> 1, posts |-> 0, upserts |-> 0, elapsed |-> 0]
             ELSE LET f == FetchFromBackend(cfg, p.stats, normalized,
                                            env.http, now + env.delay)
                  IN IF f.raised
                     THEN [cache |-> entries, points |-> points,
                           stats |-> f.stats,
                           raised |-> TRUE, payload |-> None,
                           expires_at |-> 0, path |-> "failed",
                           searches |-> 1, posts |-> f.posts, upserts |-> 0,
                           elapsed |-> IF f.posts = 0 THEN 0 ELSE env.delay]
                     ELSE LET w == PersistPrediction(
                                     points, Inc(f.stats, "backendFetches"),
                                     normalized, f.record, env.upsertOk)
                          IN [cache |-> (normalized :> f.record) @@ entries,
                              points |-> w.points, stats |-> w.stats,
                              raised |-> FALSE, payload |-> f.record.payload,
                              expires_at |-> f.record.expires_at,
                              path |-> "backend",
                              searches |-> 1, posts |-> 1, upserts |-> 1,
                              elapsed |-> env.delay]

-----------------------------------------------------------------------------
(* AiDnsResolver *)

RECURSIVE AddressRecords_anyType(_, _, _)
\* a loop over the candidates that emits every address whatever the query
\* type
AddressRecords_anyType(candidates, qtype, ttl) ==
  IF candidates = <<>>
  THEN <<>>
  ELSE LET ip == Get(Head(candidates), "ip")
           rest == AddressRecords_anyType(Tail(candidates), qtype, ttl)
       IN IF ~Truthy(ip)
          THEN rest
          ELSE (IF Contains(ip, ":")
                THEN <<[rtype |-> "AAAA", ttl |-> ttl, rdata |-> ip]>>
                ELSE <<[rtype |-> "A", ttl |-> ttl, rdata |-> ip]>>)
               \o rest

RECURSIVE AddressRecords(_, _, _)
\* AiDnsResolver.resolve: the loop over the candidates
AddressRecords(candidates, qtype, ttl) ==
  IF candidates = <<>>
  THEN <<>>
  ELSE LET ip == Get(Head(candidates), "ip")
           rest == AddressRecords(Tail(candidates), qtype, ttl)
       IN IF ~Truthy(ip)
          THEN rest
          ELSE (IF Contains(ip, ":") /\ qtype \in {"AAAA", "ANY"}
                THEN <<[rtype |-> "AAAA", ttl |-> ttl, rdata |-> ip]>>
                ELSE <<>>)
               \o (IF ~Contains(ip, ":") /\ qtype \in {"A", "ANY"}
                   THEN <<[rtype |-> "A", ttl |-> ttl, rdata |-> ip]>>
                   ELSE <<>>)
               \o rest

\* AiDnsResolver.resolve: the TXT record
TxtRecord(payload, ttl) ==
  LET meta == Get(payload, "meta")
      signature == OrStr(GetStr(payload, "signature"),
                         OrStr(GetStr(meta, "signature"), "none"))
      trust_anchor == OrStr(GetStr(payload, "trustAnchor"),
                            OrStr(GetStr(meta, "trustAnchor"), "n/a"))
  IN [rtype |-> "TXT", ttl |-> ttl,
      rdata |-> <<"signature=", signature, ";anchor=", trust_anchor>>]

\* a synthesis that adds the TXT record only when nothing else was emitted
Synthesize_txtOnlyFallback(cfg, payload, qtype) ==
  LET ttl == OrInt(GetInt(payload, "ttl"), cfg.cache_ttl)
      address == AddressRecords(Get(payload, "candidates"), qtype, ttl)
  IN [rcode |-> "NOERROR",
      rr |-> IF address = <<>>
             THEN <<TxtRecord(payload, ttl)>>
             ELSE address]

\* a synthesis that adds the TXT record only to TXT and ANY queries
Synthesize_noFallback(cfg, payload, qtype) ==
  LET ttl == OrInt(GetInt(payload, "ttl"), cfg.cache_ttl)
      address == AddressRecords(Get(payload, "candidates"), qtype, ttl)
  IN [rcode |-> "NOERROR",
      rr |-> IF qtype \in {"TXT", "ANY"}
             THEN address \o <<TxtRecord(payload, ttl)>>
             ELSE address]

\* AiDnsResolver.resolve: the reply built from a payload
Synthesize(cfg, payload, qtype) ==
  LET ttl == OrInt(GetInt(payload, "ttl"), cfg.cache_ttl)
      address == AddressRecords(Get(payload, "candidates"), qtype, ttl)
      emitted == address # <<>>
  IN [rcode |-> "NOERROR",
      rr |-> IF qtype \in {"TXT", "ANY"} \/ ~emitted
             THEN address \o <<TxtRecord(payload, ttl)>>
             ELSE address]

\* a responder that forgets the rcode when resolve_domain raised
Reply_noRcode(cfg, resolved, qtype) ==
  IF resolved.raised
  THEN [rcode |-> "NOERROR", rr |-> <<>>]
  ELSE Synthesize(cfg, resolved.payload, qtype)

\* AiDnsResolver.resolve: the reply to one query, from what resolve_domain
\* returned or raised
Reply(cfg, resolved, qtype) ==
  IF resolved.raised
  THEN [rcode |-> "SERVFAIL", rr |-> <<>>]
  ELSE Synthesize(cfg, resolved.payload, qtype)

-----------------------------------------------------------------------------
(* The state machine *)

NoCall ==
  [qname |-> <<>>, qtype |-> "", now |-> 0, env |-> None, path |-> "",
   raised |-> FALSE, payload |-> None, expires_at |-> 0, reply |-> None,
   searches |-> 0, posts |-> 0, upserts |-> 0]

\* no vector component computed yet
NoComponent == [idx |-> 0, base |-> 0, numerator |-> 0, divisor |-> 1]

\* no HTTP request in hand
NoHttpCall ==
  [route |-> "", limit |-> 0, status |-> 0, body |-> <<>>, scrolls |-> 0]

\* the threads of the process that run at the same time
Threads == {1, 2}

\* a thread that is in none of the operations
Idle == [pc |-> "idle"]

\* EdgeState.__init__: everything but the configuration it is given.  The
\* handle _dns_server is 0 for None, the id of a server otherwise, and
\* dnsLock is 0 when _dns_lock is free, its holder otherwise.
Constructed ==
  /\ cache = <<>>
  /\ qdrant = <<>>
  /\ stats = [cacheHits |-> 0, predictedHits |-> 0, backendFetches |-> 0,
              errors |-> 0]
  /\ clock = 0
  /\ call = NoCall
  /\ calls = 0
  /\ lastFetch = <<>>
  /\ httpCall = NoHttpCall
  /\ dnsServer = 0
  /\ dnsResolver = FALSE
  /\ dnsLock = 0
  /\ servers = <<>>
  /\ op = [t \in Threads |-> Idle]
  /\ threads = [t \in Threads |-> Idle]
  /\ incs = [cacheHits |-> 0, predictedHits |-> 0, backendFetches |-> 0,
             errors |-> 0]
  /\ component = NoComponent
  /\ mem = [heap |-> <<>>, cache |-> <<>>, index |-> <<>>]

\* EdgeState.__init__ with an in-memory index, under any configuration
Init ==
  /\ config \in Configs
  /\ Constructed

\* the environment choices a call does not consume are held at one value
Canonical(r, env) ==
  /\ r.searches = 0 => env.searchOk
  /\ r.posts = 0 => env.http.raised /\ env.delay = 0
  /\ r.upserts = 0 => env.upsertOk

\* one DNS query handled by AiDnsResolver.resolve: resolve_domain on the
\* query name, then the reply
DnsQuery ==
  /\ call = NoCall
  /\ calls < MaxCalls
  /\ \E qname \in QNames, env \in Envs :
       \E r \in {ResolveDomain(config, cache, qdrant, stats,
                               RStripDots(qname), clock, env)} :
         /\ Canonical(r, env)
         /\ clock + r.elapsed <= MaxTime
         /\ \E qtype \in QTypes :
              call' = [qname |-> qname, qtype |-> qtype, now |-> clock,
                       env |-> env, path |-> r.path, raised |-> r.raised,
                       payload |-> r.payload, expires_at |-> r.expires_at,
                       reply |-> Reply(config, r, qtype),
                       searches |-> r.searches, posts |-> r.posts,
                       upserts |-> r.upserts]
         /\ cache' = r.cache
         /\ qdrant' = r.points
         /\ stats' = r.stats
         /\ clock' = clock + r.elapsed
         /\ calls' = calls + 1
         /\ lastFetch' = IF r.path = "backend"
                         THEN (Lower(RStripDots(qname)) :>
                                 [payload |-> r.payload,
                                  expires_at |-> r.expires_at]) @@ lastFetch
                         ELSE lastFetch
         /\ UNCHANGED <<config, web, lifecycle, handlers, embedding,
                      objects>>

\* the DNS server sends the reply of the query in hand to the client
SendReply ==
  /\ call # NoCall
  /\ call' = NoCall
  /\ UNCHANGED <<config, cache, qdrant, stats, clock, calls, lastFetch,
                 embedding, objects, web, lifecycle, handlers>>

\* a second passes between two queries
Tick ==
  /\ call = NoCall
  /\ clock < MaxTime
  /\ clock' = clock + 1
  /\ UNCHANGED <<config, cache, qdrant, stats, call, calls, lastFetch,
                 embedding, objects, web, lifecycle, handlers>>

Next == DnsQuery \/ SendReply \/ Tick

Spec == Init /\ [][Next]_vars

\* thresholds around the score of "a" against "b": the score itself, and
\* one unit above it
ScoreThresholds == {9297, 9298}

\* EdgeState.__init__ of a deployment with an API key and a threshold set
\* next to the score of its two domains
InitThreshold ==
  /\ config \in [api_key : {"key"}, region : {EdgeRegion},
                 cache_ttl : {DefaultCacheTtl},
                 semantic_threshold : ScoreThresholds]
  /\ Constructed

SpecThreshold == InitThreshold /\ [][Next]_vars

-----------------------------------------------------------------------------
(* The reply synthesis of AiDnsResolver.resolve on its own: any payload    *)
(* resolve_domain can hand back, under any query type.                     *)

\* a bound on the number of candidates of a payload
MaxCandidates == 3

\* query types the listener is asked for: those the synthesis names, and one
\* it does not
AllQTypes == QTypes \cup {"MX"}

\* the entries of a payload's candidates list: an IPv4 address, an IPv6
\* address, an empty ip, and a candidate without the ip key
Candidates == {[ip |-> IPv4], [ip |-> IPv6], [ip |-> <<>>], [port |-> 53]}

\* the payloads of a resolution: every candidates list up to the bound, with
\* and without its own ttl and signature, and a payload without candidates
Payloads ==
  { [candidates |-> c, ttl |-> t, signature |-> sg] :
      c \in UNION {[1..n -> Candidates] : n \in 0..MaxCandidates},
      t \in {0, 1}, sg \in {"", "sig"} }
  \cup {[ttl |-> 1, meta |-> [signature |-> "msig", trustAnchor |-> "anchor"]]}

\* AiDnsResolver.resolve after resolve_domain returned a payload or raised
Answer ==
  /\ call = NoCall
  /\ \E qtype \in AllQTypes :
       \E resolved \in {[raised |-> TRUE, payload |-> None]}
                         \cup {[raised |-> FALSE, payload |-> pl] :
                                 pl \in Payloads} :
         call' = [NoCall EXCEPT !.qname = <<"a", ".">>,
                                !.qtype = qtype,
                                !.raised = resolved.raised,
                                !.payload = resolved.payload,
                                !.reply = Reply(config, resolved, qtype)]
  /\ UNCHANGED <<config, cache, qdrant, stats, clock, calls, lastFetch,
                 embedding, objects, web, lifecycle, handlers>>

NextDns == Answer \/ SendReply

SpecDns == Init /\ [][NextDns]_vars

-----------------------------------------------------------------------------
(* The HTTP control surface of build_app, next to the DNS listener: one    *)
(* request or query is handled at a time.                                  *)

\* the largest limit a client asks /predictions for
MaxLimit == 2

\* the limit query parameter of GET /predictions
Limits == -1..MaxLimit

RECURSIVE SortedIds(_)
\* the point ids in the order qdrant.scroll walks them, ascending
SortedIds(ids) ==
  IF ids = {}
  THEN <<>>
  ELSE LET least == CHOOSE i \in ids : \A j \in ids : i <= j
       IN <<least>> \o SortedIds(ids \ {least})

\* dump_predictions: the summary of one scrolled point
PointSummary(id, point) ==
  LET payload == point.payload
      resolved == Get(payload, "payload")
      candidates == Get(resolved, "candidates")
  IN [id |-> id,
      domain |-> Get(payload, "domain"),
      expiresAt |-> GetInt(payload, "expires_at"),
      intent |-> Get(resolved, "intent"),
      topCandidate |-> IF candidates = <<>> THEN None ELSE candidates[1]]

\* EdgeState.dump_predictions: scroll up to limit points and summarise them;
\* a scroll that raises gives the empty list.  The method itself does not
\* look at limit: a scroll of no points returns none.
DumpPredictions(points, limit, scrollOk) ==
  IF ~scrollOk
  THEN <<>>
  ELSE LET ids == SortedIds(DOMAIN points)
           n == IF limit <= 0 THEN 0
                ELSE IF limit < Len(ids) THEN limit ELSE Len(ids)
       IN [i \in 1..n |-> PointSummary(ids[i], points[ids[i]])]

\* a /predictions route that passes any limit on to dump_predictions
Predictions_unchecked(points, limit, scrollOk) ==
  [status |-> 200, body |-> DumpPredictions(points, limit, scrollOk),
   scrolls |-> 1]

\* build_app: the handler of GET /predictions, the one caller of
\* dump_predictions
Predictions(points, limit, scrollOk) ==
  IF limit <= 0
  THEN [status |-> 400, body |-> <<>>, scrolls |-> 0]
  ELSE [status |-> 200, body |-> DumpPredictions(points, limit, scrollOk),
        scrolls |-> 1]

\* a client calls GET /predictions?limit=...
GetPredictions ==
  /\ call = NoCall
  /\ httpCall = NoHttpCall
  /\ \E limit \in Limits, scrollOk \in BOOLEAN :
       \E r \in {Predictions(qdrant, limit, scrollOk)} :
         /\ r.scrolls = 0 => scrollOk
         /\ httpCall' = [route |-> "/predictions", limit |-> limit,
                         status |-> r.status, body |-> r.body,
                         scrolls |-> r.scrolls]
  /\ UNCHANGED <<config, cache, qdrant, stats, clock, call, calls, lastFetch,
                 embedding, objects, lifecycle, handlers>>

\* the HTTP response is sent
Respond ==
  /\ httpCall # NoHttpCall
  /\ httpCall' = NoHttpCall
  /\ UNCHANGED <<config, cache, qdrant, stats, clock, call, calls, lastFetch,
                 embedding, objects, lifecycle, handlers>>

NextHttp ==
  \/ httpCall = NoHttpCall /\ DnsQuery
  \/ SendReply
  \/ GetPredictions
  \/ Respond

SpecHttp == Init /\ [][NextHttp]_vars

-----------------------------------------------------------------------------
(* The DNS listener: start_dns and stop_dns, called by any thread at any   *)
(* time.  Each holds _dns_lock from its first statement to its return.     *)

\* a bound on the number of DNSServer objects constructed in a run
MaxServers == 2

\* a start_dns that never finds a handle
ListenerSet_never(handle) == FALSE

\* bool(self._dns_server)
ListenerSet(handle) == handle # 0

\* start_dns, stop_dns: "with self._dns_lock" is entered
Acquire(t, name) ==
  /\ op[t] = Idle
  /\ dnsLock = 0
  /\ name = "start" => Len(servers) < MaxServers
  /\ dnsLock' = t
  /\ op' = [op EXCEPT ![t] = [pc |-> name]]
  /\ UNCHANGED <<dnsServer, dnsResolver, servers>>

\* start_dns: return when a handle is set; else set the resolver and
\* construct the server, which binds the socket and may raise
StartConstruct(t) ==
  /\ op[t].pc = "start"
  /\ IF ListenerSet(dnsServer)
     THEN /\ op' = [op EXCEPT ![t] = Idle]
          /\ dnsLock' = 0
          /\ UNCHANGED <<dnsServer, dnsResolver, servers>>
     ELSE /\ dnsResolver' = TRUE
          /\ \E constructed \in BOOLEAN :
               IF constructed
               THEN /\ servers' = Append(servers,
                                         [alive |-> FALSE, stopped |-> FALSE])
                    /\ dnsServer' = Len(servers) + 1
                    /\ op' = [op EXCEPT ![t] = [pc |-> "start_thread"]]
                    /\ UNCHANGED dnsLock
               ELSE /\ op' = [op EXCEPT ![t] = Idle]
                    /\ dnsLock' = 0
                    /\ UNCHANGED <<dnsServer, servers>>

\* start_dns: start_thread() starts the serving thread or raises; either
\* way the lock is released
StartThread(t) ==
  /\ op[t].pc = "start_thread"
  /\ \E started \in BOOLEAN :
       servers' = [servers EXCEPT ![dnsServer].alive = started]
  /\ op' = [op EXCEPT ![t] = Idle]
  /\ dnsLock' = 0
  /\ UNCHANGED <<dnsServer, dnsResolver>>

\* stop_dns: return when no handle is set
StopCheck(t) ==
  /\ op[t].pc = "stop"
  /\ IF ~ListenerSet(dnsServer)
     THEN /\ op' = [op EXCEPT ![t] = Idle]
          /\ dnsLock' = 0
     ELSE /\ op' = [op EXCEPT ![t] = [pc |-> "stop_server"]]
          /\ UNCHANGED dnsLock
  /\ UNCHANGED <<dnsServer, dnsResolver, servers>>

\* stop_dns: self._dns_server.stop() returns, and the handle and the
\* resolver are cleared; or it raises, with the server shut down or not,
\* and the two assignments after it are skipped
StopServer(t) ==
  /\ op[t].pc = "stop_server"
  /\ \E stopped \in BOOLEAN :
       IF stopped
       THEN /\ servers' = [servers EXCEPT ![dnsServer] =
                             [alive |-> FALSE, stopped |-> TRUE]]
            /\ dnsServer' = 0
            /\ dnsResolver' = FALSE
       ELSE /\ \E alive \in {servers[dnsServer].alive, FALSE} :
                 servers' = [servers EXCEPT ![dnsServer].alive = alive]
            /\ UNCHANGED <<dnsServer, dnsResolver>>
  /\ op' = [op EXCEPT ![t] = Idle]
  /\ dnsLock' = 0

NextLifecycle ==
  /\ \E t \in Threads :
       \/ Acquire(t, "start")
       \/ StartConstruct(t)
       \/ StartThread(t)
       \/ Acquire(t, "stop")
       \/ StopCheck(t)
       \/ StopServer(t)
  /\ UNCHANGED <<config, cache, qdrant, stats, clock, call, calls, lastFetch,
                 embedding, objects, web, handlers>>

SpecLifecycle == Init /\ [][NextLifecycle]_vars

-----------------------------------------------------------------------------
(* The DNS handler threads: the listener serves every query on a thread of *)
(* its own, so calls of resolve_domain overlap.  A step is one access to   *)
(* the shared cache, index or stats, or one call to the index or the       *)
(* backend.  self.stats[key] += 1 reads the counter in one step and writes *)
(* it back in another.  The clock stands still.                            *)

\* a bound on the number of queries the handler threads take up in a run
MaxQueries == 2

\* the names the overlapping queries ask for
HandlerNames == {<<"a", ".">>, <<"b", ".">>}

\* a resolve_domain that runs under one lock from entry to return
Waits_serialized(ths, t) == \E u \in Threads \ {t} : ths[u].pc # "idle"

\* resolve_domain and the methods it calls enter no lock: a handler thread
\* never waits for another one
Waits(ths, t) == FALSE

\* the locals of a handler thread entering resolve_domain
Entered(domain, now, overlapped) ==
  [pc |-> "search", domain |-> domain, now |-> now, key |-> "", tmp |-> 0,
   next |-> "", record |-> None, raised |-> FALSE, path |-> "",
   overlapped |-> overlapped]

\* self.stats[key] += 1 is about to run, control goes to next after it
BeginInc(th, key, next) ==
  [th EXCEPT !.pc = "load", !.key = key, !.next = next]

\* resolve_domain: normalize, sample the time, read the cache entry and
\* test it
Enter(t) ==
  /\ threads[t] = Idle
  /\ calls < MaxQueries
  /\ ~Waits(threads, t)
  /\ \E qname \in HandlerNames :
       LET th == Entered(Normalize(RStripDots(qname)), clock,
                         {u \in Threads : threads[u].pc = "posting"})
           cached == Get(cache, th.domain)
       IN threads' = [threads EXCEPT ![t] =
            IF CacheLive(cached, th.now)
            THEN BeginInc([th EXCEPT !.record = cached, !.path = "cache"],
                          "cacheHits", "done")
            ELSE th]
  /\ calls' = calls + 1
  /\ UNCHANGED <<config, cache, qdrant, stats, clock, call, lastFetch,
                 embedding, objects, web, lifecycle, incs>>

\* self.stats[key] += 1: the counter is read
Load(t) ==
  /\ threads[t].pc = "load"
  /\ ~Waits(threads, t)
  /\ threads' = [threads EXCEPT ![t].pc = "store",
                                ![t].tmp = stats[threads[t].key]]
  /\ UNCHANGED <<config, cache, qdrant, stats, clock, call, calls, lastFetch,
                 embedding, objects, web, lifecycle, incs>>

\* self.stats[key] += 1: the value read, plus one, is written back
Store(t) ==
  /\ threads[t].pc = "store"
  /\ ~Waits(threads, t)
  /\ stats' = [stats EXCEPT ![threads[t].key] = threads[t].tmp + 1]
  /\ incs' = Inc(incs, threads[t].key)
  /\ threads' = [threads EXCEPT ![t].pc = threads[t].next]
  /\ UNCHANGED <<config, cache, qdrant, clock, call, calls, lastFetch,
                 embedding, objects, web, lifecycle>>

\* _predict_from_semantics up to its return or its errors increment
SearchIndex(t) ==
  /\ threads[t].pc = "search"
  /\ ~Waits(threads, t)
  /\ \E searchOk \in BOOLEAN :
       LET th == threads[t]
           r == PredictFromSemantics(config, qdrant, stats, th.domain,
                                     th.now, searchOk)
       IN threads' = [threads EXCEPT ![t] =
            IF ~searchOk THEN BeginInc(th, "errors", "fetch")
            ELSE IF r.accepted
            THEN BeginInc([th EXCEPT !.record = r.predicted,
                                     !.path = "predicted"],
                          "predictedHits", "cache")
            ELSE [th EXCEPT !.pc = "fetch"]]
  /\ UNCHANGED <<config, cache, qdrant, stats, clock, call, calls, lastFetch,
                 embedding, objects, web, lifecycle, incs>>

\* _fetch_from_backend: raise without an API key, else send the POST and
\* wait for the response
Post(t) ==
  /\ threads[t].pc = "fetch"
  /\ ~Waits(threads, t)
  /\ threads' = [threads EXCEPT ![t] =
       IF config.api_key = ""
       THEN [@ EXCEPT !.pc = "done", !.raised = TRUE, !.path = "failed"]
       ELSE [@ EXCEPT !.pc = "posting"]]
  /\ UNCHANGED <<config, cache, qdrant, stats, clock, call, calls, lastFetch,
                 embedding, objects, web, lifecycle, incs>>

\* _fetch_from_backend: the POST returns or raises
Response(t) ==
  /\ threads[t].pc = "posting"
  /\ ~Waits(threads, t)
  /\ \E http \in HttpOutcomes :
       LET th == threads[t]
           r == FetchFromBackend(config, stats, th.domain, http, clock)
       IN threads' = [threads EXCEPT ![t] =
            IF r.raised
            THEN BeginInc([th EXCEPT !.raised = TRUE, !.path = "failed"],
                          "errors", "done")
            ELSE BeginInc([th EXCEPT !.record = r.record,
                                     !.path = "backend"],
                          "backendFetches", "cache")]
  /\ UNCHANGED <<config, cache, qdrant, stats, clock, call, calls, lastFetch,
                 embedding, objects, web, lifecycle, incs>>

\* resolve_domain: self.cache[normalized] = predicted, or = fresh
WriteCache(t) ==
  /\ threads[t].pc = "cache"
  /\ ~Waits(threads, t)
  /\ cache' = (threads[t].domain :> threads[t].record) @@ cache
  /\ threads' = [threads EXCEPT ![t].pc =
       IF threads[t].path = "backend" THEN "persist" ELSE "done"]
  /\ UNCHANGED <<config, qdrant, stats, clock, call, calls, lastFetch,
                 embedding, objects, web, lifecycle, incs>>

\* _persist_prediction up to its return or its errors increment
Persist(t) ==
  /\ threads[t].pc = "persist"
  /\ ~Waits(threads, t)
  /\ \E upsertOk \in BOOLEAN :
       LET th == threads[t]
           r == PersistPrediction(qdrant, stats, th.domain, th.record,
                                  upsertOk)
       IN /\ qdrant' = r.points
          /\ threads' = [threads EXCEPT ![t] =
               IF upsertOk THEN [th EXCEPT !.pc = "done"]
               ELSE BeginInc(th, "errors", "done")]
  /\ UNCHANGED <<config, cache, stats, clock, call, calls, lastFetch,
                 embedding, objects, web, lifecycle, incs>>

\* resolve_domain returns or raises, and the handler thread ends
Return(t) ==
  /\ threads[t].pc = "done"
  /\ ~Waits(threads, t)
  /\ threads' = [threads EXCEPT ![t] = Idle]
  /\ UNCHANGED <<config, cache, qdrant, stats, clock, call, calls, lastFetch,
                 embedding, objects, web, lifecycle, incs>>

\* the next step of handler thread t
HandlerStep(t) ==
  \/ Enter(t)
  \/ SearchIndex(t)
  \/ Load(t)
  \/ Store(t)
  \/ Post(t)
  \/ Response(t)
  \/ WriteCache(t)
  \/ Persist(t)
  \/ Return(t)

NextHandlers == \E t \in Threads : HandlerStep(t)

SpecHandlers == Init /\ [][NextHandlers]_vars

-----------------------------------------------------------------------------
(* embed_domain on its own: one component of the vector, for any byte of   *)
(* the SHA-256 digest at any position.                                     *)

\* embed_domain: the default of dims, which is also the digest's length
Dims == 32

\* the values of a digest byte
Bytes == 0..255

\* embed_domain: the component at idx as the fraction the code divides out,
\* (base + (idx * 17 % 255)) / 255.0
Component(base, idx) ==
  [idx |-> idx, base |-> base,
   numerator |-> base + ((idx * 17) % 255), divisor |-> 255]

\* one turn of the loop of embed_domain, base being digest[idx % 32]
EmbedComponent ==
  /\ component = NoComponent \/ component.idx < Dims - 1
  /\ \E base \in Bytes :
       component' = Component(base, IF component = NoComponent THEN 0
                                    ELSE component.idx + 1)
  /\ UNCHANGED <<config, cache, qdrant, stats, clock, call, calls, lastFetch,
                 objects, web, lifecycle, handlers>>

\* embed_domain returns after the last component
EmbedReturn ==
  /\ component # NoComponent
  /\ component.idx = Dims - 1
  /\ component' = NoComponent
  /\ UNCHANGED <<config, cache, qdrant, stats, clock, call, calls, lastFetch,
                 objects, web, lifecycle, handlers>>

NextEmbed == EmbedComponent \/ EmbedReturn

SpecEmbed == Init /\ [][NextEmbed]_vars

-----------------------------------------------------------------------------
(* GET /cache next to the DNS handler threads: the HTTP server runs the    *)
(* handler, and with it dump_cache, on a thread of its own.  A step of     *)
(* dump_cache is one turn of its loop over self.cache.items().  A dict     *)
(* iterator raises RuntimeError at the turn that finds the size of the     *)
(* dict changed since the iteration began.                                 *)

\* dump_cache: the summary of one cache entry.  expiresAt stands for the
\* text time.strftime makes of that second.
EntrySummary(domain, record, now) ==
  LET candidates == Get(record.payload, "candidates")
  IN [domain |-> domain,
      expiresAt |-> <<"Z", record.expires_at>>,
      stale |-> record.expires_at <= now,
      predicted |-> "predicted" \in DOMAIN record.payload
                      /\ record.payload.predicted = TRUE,
      topCandidate |-> IF candidates = <<>> THEN None ELSE candidates[1]]

\* dump_cache: sample the time and begin to iterate over the cache
DumpStart(t) ==
  /\ threads[t] = Idle
  /\ threads' = [threads EXCEPT ![t] =
       [pc |-> "dump", now |-> clock, size |-> Cardinality(DOMAIN cache),
        left |-> DOMAIN cache, entries |-> {}, raised |-> FALSE]]
  /\ UNCHANGED <<config, cache, qdrant, stats, clock, call, calls, lastFetch,
                 embedding, objects, web, lifecycle, incs>>

\* dump_cache: the iterator is asked for the next item; it raises when the
\* dict has grown, ends the loop when no key is left, and yields the next
\* entry otherwise, which is summarised
DumpNext(t) ==
  /\ threads[t].pc = "dump"
  /\ threads' = [threads EXCEPT ![t] =
       IF Cardinality(DOMAIN cache) # @.size
       THEN [@ EXCEPT !.pc = "dumped", !.raised = TRUE, !.entries = {}]
       ELSE IF @.left = {}
       THEN [@ EXCEPT !.pc = "dumped"]
       ELSE LET d == CHOOSE k \in @.left : TRUE
            IN [@ EXCEPT !.left = @ \ {d},
                         !.entries = @ \cup
                           {EntrySummary(d, cache[d], threads[t].now)}]]
  /\ UNCHANGED <<config, cache, qdrant, stats, clock, call, calls, lastFetch,
                 embedding, objects, web, lifecycle, incs>>

\* dump_cache returns the list, or the RuntimeError goes up to the server
DumpReturn(t) ==
  /\ threads[t].pc = "dumped"
  /\ threads' = [threads EXCEPT ![t] = Idle]
  /\ UNCHANGED <<config, cache, qdrant, stats, clock, call, calls, lastFetch,
                 embedding, objects, web, lifecycle, incs>>

NextIntrospect ==
  \E t \in Threads :
    \/ HandlerStep(t)
    \/ DumpStart(t)
    \/ DumpNext(t)
    \/ DumpReturn(t)

SpecIntrospect == Init /\ [][NextIntrospect]_vars

-----------------------------------------------------------------------------
(* The payload dicts as Python objects.  mem.heap holds the value of every *)
(* payload dict created so far; mem.cache and mem.index hold references    *)
(* into it, the way self.cache and the in-memory index hold dicts.  The    *)
(* index client may keep and hand out the very dict it was given or a copy *)
(* of it: both are followed.  This machine follows the objects only, not   *)
(* the counters.                                                           *)

\* a bound on the number of payload dicts created in a run
MaxObjects == 5

\* the domains resolved
ObjectDomains == {<<"a">>, <<"b">>}

\* a new dict with the given value
Alloc(heap, value) == [heap |-> Append(heap, value), ref |-> Len(heap) + 1]

\* predicted_payload = payload, without the copy
Dict_alias(heap, ref) == [heap |-> heap, ref |-> ref]

\* dict(payload): a new dict with the items of the one referred to
Dict(heap, ref) == Alloc(heap, heap[ref])

\* d[key] = value on the dict referred to
SetItem(heap, ref, key, value) ==
  [heap EXCEPT ![ref] = (key :> value) @@ @]

\* resolve_domain on a cache miss with an accepted prediction: the hit's
\* payload is the stored dict or a copy of it; the code copies it, marks the
\* copy and caches it
AcceptPrediction(m, domain, hit, handsOutCopy) ==
  LET stored == hit.payload.payload
      got == IF handsOutCopy THEN Dict(m.heap, stored)
             ELSE [heap |-> m.heap, ref |-> stored]
      copy == Dict(got.heap, got.ref)
  IN [heap |-> SetItem(copy.heap, copy.ref, "predicted", TRUE),
      cache |-> (domain :> [payload |-> copy.ref,
                            expires_at |-> hit.payload.expires_at])
                  @@ m.cache,
      index |-> m.index]

\* resolve_domain on a cache miss without a prediction, the fetch having
\* succeeded: the annotated response body is a new dict, cached and handed
\* to the index, which keeps that dict or a copy of it
StoreFresh(m, domain, record, upsertOk, keepsCopy) ==
  LET fresh == Alloc(m.heap, record.payload)
      kept == IF upsertOk /\ keepsCopy THEN Dict(fresh.heap, fresh.ref)
              ELSE fresh
  IN [heap |-> kept.heap,
      cache |-> (domain :> [payload |-> fresh.ref,
                            expires_at |-> record.expires_at]) @@ m.cache,
      index |-> IF upsertOk
                THEN (vector_id(domain) :>
                        [payload |-> [domain |-> domain,
                                      expires_at |-> record.expires_at,
                                      payload |-> kept.ref]]) @@ m.index
                ELSE m.index]

\* resolve_domain, as it creates, shares and writes payload dicts
ResolveObjects ==
  /\ Len(mem.heap) + 2 <= MaxObjects
  /\ \E domain \in ObjectDomains, http \in HttpOutcomes,
        upsertOk \in BOOLEAN, handsOutCopy \in BOOLEAN, keepsCopy \in BOOLEAN :
       LET cached == Get(mem.cache, domain)
           hits == Search(mem.index, domain)
           f == FetchFromBackend(config, stats, domain, http, clock)
       IN IF CacheLive(cached, clock)
          THEN UNCHANGED mem
          ELSE IF /\ hits # <<>>
                  /\ ~PredictionRejected(mem.heap[hits[1].payload.payload],
                                         hits[1].payload.expires_at,
                                         hits[1].score, clock,
                                         config.semantic_threshold)
          THEN mem' = AcceptPrediction(mem, domain, hits[1], handsOutCopy)
          ELSE IF f.raised
          THEN UNCHANGED mem
          ELSE mem' = StoreFresh(mem, domain, f.record, upsertOk, keepsCopy)
  /\ UNCHANGED <<config, cache, qdrant, stats, clock, call, calls, lastFetch,
                 embedding, web, lifecycle, handlers>>

NextObjects == ResolveObjects \/ Tick

SpecObjects == Init /\ [][NextObjects]_vars

-----------------------------------------------------------------------------
(* Vocabulary of the properties.  A step with calls' = calls + 1 is one    *)
(* DNS query: the unprimed variables are the state resolve_domain found,   *)
(* the primed ones the state it left, call' what it did and returned.      *)

QueryStep == calls' = calls + 1

\* the cache key of a query name: trailing dots trimmed, lowercased
Key(qname) == Lower(RStripDots(qname))

\* the cache holds an entry under key k that has not expired at time t
LiveEntry(entries, k, t) == k \in DOMAIN entries /\ entries[k].expires_at > t

\* the HTTP call raised or returned a non-success status
HttpFailed(http) == http.raised \/ http.status < 200 \/ http.status >= 300

\* the call went to the backend and the fetch failed
FetchFailed(cfg, c) ==
  \/ c.posts = 1 /\ HttpFailed(c.env.http)
  \/ c.posts = 0 /\ c.path \notin {"cache", "predicted"} /\ cfg.api_key = ""

\* the call went to the backend and the fetch succeeded
FetchSucceeded(c) == c.posts = 1 /\ ~HttpFailed(c.env.http)

\* a response body with meta.edgeRegion and meta.cachedAt injected
Stamped(body, region, t) ==
  LET meta == Get(body, "meta") IN
  [f \in DOMAIN body \cup {"meta"} |->
     IF f = "meta"
     THEN [g \in DOMAIN meta \cup {"edgeRegion", "cachedAt"} |->
             CASE g = "edgeRegion" -> region
               [] g = "cachedAt" -> t
               [] OTHER -> meta[g]]
     ELSE body[f]]

\* 1 when the flag holds, else 0
Count(flag) == IF flag THEN 1 ELSE 0

-----------------------------------------------------------------------------
(* Properties *)

\* C1 - cache precedence: a resolve that finds a live cache entry for the
\* normalized domain returns exactly that entry's payload, searches no
\* index, calls no backend and writes neither cache nor index.
C1_CachePrecedence ==
  [][(QueryStep /\ LiveEntry(cache, Key(call'.qname), clock)) =>
       /\ ~call'.raised
       /\ call'.payload = cache[Key(call'.qname)].payload
       /\ call'.searches = 0 /\ call'.posts = 0 /\ call'.upserts = 0
       /\ cache' = cache
       /\ qdrant' = qdrant]_vars

C1_Witness ==
  /\ call # NoCall
  /\ call.path = "cache"
  /\ LiveEntry(cache, Key(call.qname), call.now)
  /\ call.payload = cache[Key(call.qname)].payload
  /\ call.searches = 0

\* C2 - expiry enforcement: the cache-hit path never returns an entry whose
\* expires_at is not strictly greater than the time of the call, and every
\* prediction accepted comes from an index record whose expires_at is
\* strictly greater than the time of the call.
C2_ExpiryEnforcement ==
  [][QueryStep =>
       /\ (/\ Key(call'.qname) \in DOMAIN cache
           /\ cache[Key(call'.qname)].expires_at <= clock)
            => call'.path # "cache"
       /\ call'.path = "predicted" =>
            /\ call'.expires_at > clock
            /\ \E id \in DOMAIN qdrant :
                 /\ call'.payload
                      = ("predicted" :> TRUE) @@ qdrant[id].payload.payload
                 /\ call'.expires_at = qdrant[id].payload.expires_at
            /\ \A id \in DOMAIN qdrant :
                 call'.payload
                      = ("predicted" :> TRUE) @@ qdrant[id].payload.payload
                   => qdrant[id].payload.expires_at > clock]_vars

C2_Witness ==
  /\ call # NoCall
  /\ call.path = "failed"
  /\ call.env.searchOk
  /\ Key(call.qname) \in DOMAIN cache
  /\ cache[Key(call.qname)].expires_at = call.now
  /\ \E id \in DOMAIN qdrant : qdrant[id].payload.expires_at = call.now

\* C3 - resolve raises and returns no payload whenever there is no live
\* cache entry, no prediction is accepted, and the API key is absent or the
\* backend call fails; an expired cache entry is not served instead.
C3_FailsWithoutSource ==
  [][(/\ QueryStep
      /\ ~LiveEntry(cache, Key(call'.qname), clock)
      /\ call'.path # "predicted"
      /\ (config.api_key = "" \/ HttpFailed(call'.env.http)))
       => call'.raised /\ call'.payload = None]_vars

C3_Witness ==
  /\ call # NoCall
  /\ call.raised
  /\ call.payload = None
  /\ call.posts = 1
  /\ Key(call.qname) \in DOMAIN cache
  /\ cache[Key(call.qname)].expires_at <= call.now

\* C4 - a resolve whose backend fetch fails leaves the cache and the
\* prediction index as they were and does not increment backendFetches.
C4_FailedFetchWritesNothing ==
  [][(QueryStep /\ FetchFailed(config, call')) =>
       /\ cache' = cache
       /\ qdrant' = qdrant
       /\ stats'.backendFetches = stats.backendFetches]_vars

C4_Witness ==
  /\ call # NoCall
  /\ FetchFailed(config, call)
  /\ call.posts = 1
  /\ calls = 2
  /\ stats.backendFetches = 1
  /\ DOMAIN cache # {}
  /\ DOMAIN qdrant # {}

\* C5 - every failed backend fetch increments errors by one, when the API
\* key is unset as well as when the HTTP call raises or returns a
\* non-success status.
C5_FailedFetchCounted ==
  [][(QueryStep /\ FetchFailed(config, call')) =>
       stats'.errors = stats.errors + Count(~call'.env.searchOk) + 1]_vars

\* C6 - DNS failure semantics: when resolve_domain raised, the reply is
\* SERVFAIL with no answer record; a reply with a success rcode was built
\* from a payload resolve_domain returned.
C6_ServfailOnError ==
  call # NoCall =>
    /\ call.raised => call.reply = [rcode |-> "SERVFAIL", rr |-> <<>>]
    /\ call.reply.rcode # "SERVFAIL" =>
         /\ call.reply.rcode = "NOERROR"
         /\ ~call.raised
         /\ Truthy(call.payload)
         /\ call.reply.rr # <<>>

C6_Witness ==
  /\ call # NoCall
  /\ call.raised
  /\ call.reply.rcode = "SERVFAIL"
  /\ call.reply.rr = <<>>

\* C7 - a failed index search is not propagated: it adds one to errors and
\* resolve goes on to the backend fetch, whose outcome is the call's outcome.
C7_SearchFailureAbsorbed ==
  [][(QueryStep /\ ~call'.env.searchOk) =>
       /\ call'.searches = 1
       /\ call'.path \in {"backend", "failed"}
       /\ call'.raised <=> FetchFailed(config, call')
       /\ ~call'.raised =>
            /\ FetchSucceeded(call')
            /\ call'.payload
                 = Stamped(call'.env.http.body, config.region,
                           clock + call'.env.delay)
       /\ stats'.errors
            = stats.errors + 1
                + Count(call'.posts = 1 /\ HttpFailed(call'.env.http))
                + Count(call'.upserts = 1 /\ ~call'.env.upsertOk)]_vars

C7_Witness ==
  /\ call # NoCall
  /\ ~call.env.searchOk
  /\ call.path = "backend"
  /\ call.env.upsertOk
  /\ stats.errors = 1

\* C8 as stated - when the backend fetch succeeds and the index write
\* fails, resolve returns the fetched payload, the cache entry is the
\* fetched one, backendFetches went up by one and errors went up by one.
C8_Original ==
  [][(QueryStep /\ FetchSucceeded(call') /\ ~call'.env.upsertOk) =>
       /\ ~call'.raised
       /\ call'.payload
            = Stamped(call'.env.http.body, config.region,
                      clock + call'.env.delay)
       /\ cache'[Key(call'.qname)].payload = call'.payload
       /\ stats'.backendFetches = stats.backendFetches + 1
       /\ stats'.errors = stats.errors + 1]_vars

\* C8 amended - as stated, except that errors went up by one for the failed
\* write, on top of one more when the index search of the same call failed.
C8_WriteFailureTolerated ==
  [][(QueryStep /\ FetchSucceeded(call') /\ ~call'.env.upsertOk) =>
       /\ ~call'.raised
       /\ call'.payload
            = Stamped(call'.env.http.body, config.region,
                      clock + call'.env.delay)
       /\ cache'[Key(call'.qname)].payload = call'.payload
       /\ qdrant' = qdrant
       /\ stats'.backendFetches = stats.backendFetches + 1
       /\ stats'.errors
            = stats.errors + 1 + Count(~call'.env.searchOk)]_vars

C8_Witness ==
  /\ call # NoCall
  /\ FetchSucceeded(call)
  /\ ~call.env.upsertOk
  /\ ~call.env.searchOk
  /\ calls = 1
  /\ stats.errors = 2
  /\ stats.backendFetches = 1
  /\ cache[Key(call.qname)].payload = call.payload

\* the ttl a fetched payload is cached for
TtlOf(cfg, body) == IF GetInt(body, "ttl") # 0 THEN body.ttl ELSE cfg.cache_ttl

\* the index holds, for domain k, exactly the cache entry of k
Persisted(points, entries, k) ==
  \E id \in DOMAIN points :
    points[id].payload = [domain |-> k,
                          expires_at |-> entries[k].expires_at,
                          payload |-> entries[k].payload]

\* what C9 says of the cache and the counters
C9_CacheEffect ==
  /\ call'.posts = 1
  /\ stats'.backendFetches = stats.backendFetches + 1
  /\ Key(call'.qname) \in DOMAIN cache'
  /\ cache'[Key(call'.qname)].expires_at
       = clock + call'.env.delay + TtlOf(config, call'.env.http.body)
  /\ cache'[Key(call'.qname)].payload
       = Stamped(call'.env.http.body, config.region, clock + call'.env.delay)
  /\ \A k \in DOMAIN cache \ {Key(call'.qname)} :
       k \in DOMAIN cache' /\ cache'[k] = cache[k]

\* the case C9 is about: no live entry, no accepted prediction, an API key,
\* and a backend call that succeeds
C9_Case ==
  /\ QueryStep
  /\ ~LiveEntry(cache, Key(call'.qname), clock)
  /\ call'.path # "predicted"
  /\ config.api_key # ""
  /\ ~HttpFailed(call'.env.http)

\* C9 as stated - the backend-fetch success path makes one backend call,
\* adds one to backendFetches, stores the cache entry with expires_at =
\* time of fetch + ttl, and writes a prediction record for the domain with
\* the same payload and expires_at.
C9_Original ==
  [][C9_Case =>
       /\ C9_CacheEffect
       /\ Persisted(qdrant', cache', Key(call'.qname))]_vars

\* C9 amended - as stated, except that the prediction record is written
\* when the index write succeeds; when it fails the index is unchanged.
C9_FetchSuccessPath ==
  [][C9_Case =>
       /\ C9_CacheEffect
       /\ call'.upserts = 1
       /\ call'.env.upsertOk => Persisted(qdrant', cache', Key(call'.qname))
       /\ ~call'.env.upsertOk => qdrant' = qdrant]_vars

C9_Witness ==
  /\ call # NoCall
  /\ call.path = "backend"
  /\ call.env.upsertOk
  /\ call.env.delay = 1
  /\ call.env.http.body.ttl = 1
  /\ cache[Key(call.qname)].expires_at = call.now + 2
  /\ Persisted(qdrant, cache, Key(call.qname))

\* C10 - write-through round trip: after a resolve of a domain fetched from
\* the backend, every later resolve of that domain before the entry's
\* expires_at makes no backend call, adds one to cacheHits and changes no
\* other counter, and returns the payload the fetching call returned.
C10_RoundTrip ==
  [][(/\ QueryStep
      /\ Key(call'.qname) \in DOMAIN lastFetch
      /\ clock < lastFetch[Key(call'.qname)].expires_at) =>
       /\ call'.posts = 0
       /\ ~call'.raised
       /\ call'.payload = lastFetch[Key(call'.qname)].payload
       /\ stats' = [stats EXCEPT !.cacheHits = @ + 1]]_vars

C10_Witness ==
  /\ call # NoCall
  /\ call.qname = <<"A", ".">>
  /\ call.path = "cache"
  /\ Key(call.qname) \in DOMAIN lastFetch
  /\ call.now < lastFetch[Key(call.qname)].expires_at
  /\ call.payload = lastFetch[Key(call.qname)].payload
  /\ call.now > 0

\* the stored point nearest to domain k, as the index ranks them
Nearest(points, k) ==
  CHOOSE i \in DOMAIN points :
    \A j \in DOMAIN points :
      Score(k, points[j].payload.domain) <= Score(k, points[i].payload.domain)

\* C11 - prediction acceptance threshold: when a resolve searches the index
\* and the nearest hit has a non-empty payload and expires_at > now, the
\* prediction is accepted if and only if the hit's score is greater than or
\* equal to the configured threshold; a hit below the threshold makes the
\* resolve go on to the backend fetch.
C11_AcceptanceThreshold ==
  [][(QueryStep /\ call'.searches = 1 /\ call'.env.searchOk
        /\ DOMAIN qdrant # {})
     => LET hit == qdrant[Nearest(qdrant, Key(call'.qname))].payload
            score == Score(Key(call'.qname), hit.domain)
        IN (Truthy(hit.payload) /\ hit.expires_at > clock)
           => /\ (call'.path = "predicted")
                   <=> (score >= config.semantic_threshold)
              /\ score < config.semantic_threshold
                   => /\ call'.path \in {"backend", "failed"}
                      /\ call'.posts = 1]_vars

\* a prediction accepted with a score exactly equal to the threshold
C11_Witness ==
  /\ call # NoCall
  /\ call.path = "predicted"
  /\ call.searches = 1
  /\ DOMAIN qdrant # {}
  /\ Score(Key(call.qname),
           qdrant[Nearest(qdrant, Key(call.qname))].payload.domain)
       = config.semantic_threshold

\* C12 - accepted prediction: a resolve that accepts a prediction makes no
\* backend call, increments predictedHits by exactly 1 and no other counter,
\* returns a payload marked predicted = TRUE, and stores it in the cache
\* under the requested domain with the record's expiry; a later resolve that
\* finds this entry before its expiry is a cache hit that returns it with no
\* index search (cacheHits incremented).
C12_AcceptedPrediction ==
  [][QueryStep
     => /\ call'.path = "predicted"
          => /\ call'.posts = 0
             /\ call'.upserts = 0
             /\ stats' = [stats EXCEPT !.predictedHits = @ + 1]
             /\ "predicted" \in DOMAIN call'.payload
             /\ call'.payload.predicted = TRUE
             /\ cache' = (Key(call'.qname) :>
                            [payload |-> call'.payload,
                             expires_at |-> call'.expires_at]) @@ cache
             /\ call'.expires_at > clock
        /\ (/\ LiveEntry(cache, Key(call'.qname), clock)
            /\ "predicted" \in DOMAIN cache[Key(call'.qname)].payload)
          => /\ call'.path = "cache"
             /\ call'.searches = 0
             /\ call'.posts = 0
             /\ call'.payload = cache[Key(call'.qname)].payload
             /\ stats' = [stats EXCEPT !.cacheHits = @ + 1]]_vars

\* a resolve served from the cache with a payload a prediction put there
C12_Witness ==
  /\ call # NoCall
  /\ call.path = "cache"
  /\ "predicted" \in DOMAIN call.payload
  /\ call.payload.predicted = TRUE
  /\ stats.predictedHits = 1
  /\ stats.cacheHits = 1

\* a candidate that carries an IPv4 address
IsIPv4(candidate) ==
  "ip" \in DOMAIN candidate /\ candidate.ip # <<>>
    /\ ~Contains(candidate.ip, ":")

\* a candidate that carries an IPv6 address
IsIPv6(candidate) ==
  "ip" \in DOMAIN candidate /\ candidate.ip # <<>>
    /\ Contains(candidate.ip, ":")

\* the candidates list of a payload, empty when the payload has none
CandidatesOf(payload) ==
  IF "candidates" \in DOMAIN payload THEN payload.candidates ELSE <<>>

IsA(rr) == rr.rtype = "A"

IsAAAA(rr) == rr.rtype = "AAAA"

IsTXT(rr) == rr.rtype = "TXT"

\* the query type asks for the address of this candidate
Matches(candidate, qtype) ==
  \/ IsIPv4(candidate) /\ qtype \in {"A", "ANY"}
  \/ IsIPv6(candidate) /\ qtype \in {"AAAA", "ANY"}

\* C18 - DNS ANY synthesis: the reply to an ANY query whose payload has at
\* least one IPv4 and one IPv6 candidate holds one A record per IPv4
\* candidate, one AAAA record per IPv6 candidate and exactly one TXT record,
\* and nothing else.
C18_AnySynthesis ==
  (/\ call # NoCall
   /\ ~call.raised
   /\ call.qtype = "ANY"
   /\ \E i \in DOMAIN CandidatesOf(call.payload) :
        IsIPv4(CandidatesOf(call.payload)[i])
   /\ \E i \in DOMAIN CandidatesOf(call.payload) :
        IsIPv6(CandidatesOf(call.payload)[i]))
  => LET c == CandidatesOf(call.payload)
         rr == call.reply.rr
     IN /\ call.reply.rcode = "NOERROR"
        /\ Len(SelectSeq(rr, IsA)) = Len(SelectSeq(c, IsIPv4))
        /\ \A i \in DOMAIN SelectSeq(rr, IsA) :
             SelectSeq(rr, IsA)[i].rdata = SelectSeq(c, IsIPv4)[i].ip
        /\ Len(SelectSeq(rr, IsAAAA)) = Len(SelectSeq(c, IsIPv6))
        /\ \A i \in DOMAIN SelectSeq(rr, IsAAAA) :
             SelectSeq(rr, IsAAAA)[i].rdata = SelectSeq(c, IsIPv6)[i].ip
        /\ Len(SelectSeq(rr, IsTXT)) = 1
        /\ Len(rr) = Len(SelectSeq(c, IsIPv4)) + Len(SelectSeq(c, IsIPv6)) + 1

\* an ANY reply with two A records, one AAAA record and the TXT record
C18_Witness ==
  /\ call # NoCall
  /\ call.qtype = "ANY"
  /\ ~call.raised
  /\ Len(SelectSeq(CandidatesOf(call.payload), IsIPv4)) = 2
  /\ Len(SelectSeq(CandidatesOf(call.payload), IsIPv6)) = 1
  /\ Len(call.reply.rr) = 4
  /\ Len(SelectSeq(call.reply.rr, IsTXT)) = 1

\* C19 - fallback TXT: every reply that is not SERVFAIL holds at least one
\* answer record, whatever the query type and the payload; when no candidate
\* has an address of the type asked for (no candidates, candidates without
\* an ip, none matching the query type) the reply is exactly one TXT record.
C19_FallbackTxt ==
  (call # NoCall /\ call.reply.rcode # "SERVFAIL")
  => LET c == CandidatesOf(call.payload)
         rr == call.reply.rr
     IN /\ Len(rr) >= 1
        /\ (\A i \in DOMAIN c : ~Matches(c[i], call.qtype))
             => /\ Len(rr) = 1
                /\ rr[1].rtype = "TXT"

\* an A query answered with the TXT record alone, for a payload that has
\* candidates but no IPv4 address
C19_Witness ==
  /\ call # NoCall
  /\ call.qtype = "A"
  /\ ~call.raised
  /\ Len(CandidatesOf(call.payload)) = 2
  /\ \E i \in DOMAIN CandidatesOf(call.payload) :
       IsIPv6(CandidatesOf(call.payload)[i])
  /\ Len(call.reply.rr) = 1
  /\ call.reply.rr[1].rtype = "TXT"

\* C20 - dumpPredictions with a limit <= 0: every GET /predictions with
\* limit <= 0, the one entry point of dump_predictions, is answered with
\* the invalid-argument status 400 and no scroll of the index is issued.
C20_NonPositiveLimitRejected ==
  (httpCall.route = "/predictions" /\ httpCall.limit <= 0)
  => /\ httpCall.status = 400
     /\ httpCall.scrolls = 0
     /\ httpCall.body = <<>>

\* limit = 0 turned down while the index holds a record
C20_Witness ==
  /\ httpCall.route = "/predictions"
  /\ httpCall.limit = 0
  /\ httpCall.status = 400
  /\ DOMAIN qdrant # {}

\* thread t is inside stop_dns
InStop(t) == op[t].pc \in {"stop", "stop_server"}

\* C15 - idempotent start: a server is constructed only when the state
\* holds no handle and every server constructed before has been stopped by
\* stop_dns, so that at most one server constructed since the last stop
\* exists at any time and the handle names it; a start_dns call that finds
\* a handle changes neither the handle, the resolver nor any server.
C15_StartIdempotent ==
  [][/\ \A i \in DOMAIN servers' : i # dnsServer' => servers'[i].stopped
     /\ Cardinality({i \in DOMAIN servers' : ~servers'[i].stopped}) <= 1
     /\ \A t \in Threads :
          (op[t].pc = "start" /\ dnsServer # 0 /\ op'[t] = Idle)
          => UNCHANGED <<dnsServer, dnsResolver, servers>>
     /\ Len(servers') > Len(servers)
          => /\ dnsServer = 0
             /\ \A i \in DOMAIN servers : servers[i].stopped]_vars

\* a start_dns call about to find the handle of a running listener
C15_Witness ==
  /\ \E t \in Threads : op[t].pc = "start"
  /\ dnsServer # 0
  /\ servers[dnsServer].alive

\* C16 - release on every shutdown path: when a stop_dns call returns or
\* raises, the state holds no server handle and no server is running; a
\* stop_dns call that finds no handle changes nothing.
C16_ReleasedAfterStop ==
  [][\A t \in Threads :
       (InStop(t) /\ op'[t] = Idle)
       => /\ dnsServer' = 0
          /\ \A i \in DOMAIN servers' : ~servers'[i].alive
          /\ dnsServer = 0 => UNCHANGED <<dnsServer, dnsResolver, servers>>]_vars

\* no handler thread is inside resolve_domain
Quiescent == \A t \in Threads : threads[t] = Idle

\* C13 - no lost increment: once every overlapping resolve call has
\* finished, each of cacheHits, predictedHits, backendFetches and errors
\* equals the number of times its increment statement was executed.
C13_NoLostIncrement == Quiescent => stats = incs

\* C14 - no lock across the backend call: while one handler thread is
\* blocked in the backend POST, every other handler thread can take its
\* next step, whatever it is: enter resolve_domain for a new query, or go
\* on with the query it is handling, up to its return.
C14_NotBlockedByBackendCall ==
  \A t \in Threads : \A u \in Threads \ {t} :
    threads[t].pc = "posting"
    => /\ (threads[u] = Idle /\ calls < MaxQueries) => ENABLED Enter(u)
       /\ threads[u] # Idle => ENABLED HandlerStep(u)

\* a query for another domain that was started while a thread was blocked
\* in the backend call, and has run to completion through a backend fetch
\* of its own while that thread is still blocked
C14_Witness ==
  \E t \in Threads : \E u \in Threads \ {t} :
    /\ threads[t].pc = "posting"
    /\ threads[u].pc = "done"
    /\ t \in threads[u].overlapped
    /\ threads[u].domain # threads[t].domain
    /\ threads[u].path = "backend"
    /\ threads[u].domain \in DOMAIN cache
    /\ calls = 2

\* C17 - stats monotonicity: no step of the program lowers any of the
\* counters cacheHits, predictedHits, backendFetches and errors.
C17_StatsMonotonic ==
  [][\A k \in DOMAIN stats : stats'[k] >= stats[k]]_vars

\* C21 - embedding range: every component embed_domain computes lies in
\* [0,1), that is, its numerator (byte + (idx*17 mod 255)) is not negative
\* and strictly less than its divisor 255.
C21_ComponentBelowOne ==
  /\ component.numerator >= 0
  /\ component.numerator < component.divisor

\* the rdata of the records of a reply that have the given type, in order
RdataOf(rr, rtype) ==
  LET Has(r) == r.rtype = rtype
      sel == SelectSeq(rr, Has)
  IN [i \in DOMAIN sel |-> sel[i].rdata]

\* the addresses of the candidates that pass the test, in order
AddressesOf(candidates, Test(_)) ==
  LET sel == SelectSeq(candidates, Test)
  IN [i \in DOMAIN sel |-> sel[i].ip]

\* C22 - record type filtering: in a reply built from a payload, the A
\* records are the IPv4 candidates, in order, when the query type is A or
\* ANY and none otherwise; the AAAA records are the IPv6 candidates, in
\* order, when the query type is AAAA or ANY and none otherwise; so a TXT
\* query gets no address record, an A query no AAAA record, an AAAA query no
\* A record, and the address records are as many as the candidates that
\* match the query type.
C22_RecordTypeFiltering ==
  (call # NoCall /\ call.reply.rcode = "NOERROR")
  => LET c == CandidatesOf(call.payload)
         rr == call.reply.rr
         a == RdataOf(rr, "A")
         aaaa == RdataOf(rr, "AAAA")
     IN /\ a = IF call.qtype \in {"A", "ANY"}
               THEN AddressesOf(c, IsIPv4) ELSE <<>>
        /\ aaaa = IF call.qtype \in {"AAAA", "ANY"}
                  THEN AddressesOf(c, IsIPv6) ELSE <<>>
        /\ call.qtype = "TXT" => a = <<>> /\ aaaa = <<>>
        /\ call.qtype = "A" => aaaa = <<>>
        /\ call.qtype = "AAAA" => a = <<>>
        /\ Len(a) + Len(aaaa)
             = Cardinality({i \in DOMAIN c : Matches(c[i], call.qtype)})

\* an AAAA query over a payload with both kinds of address, answered with
\* the IPv6 address alone
C22_Witness ==
  /\ call # NoCall
  /\ call.qtype = "AAAA"
  /\ call.reply.rcode = "NOERROR"
  /\ \E i \in DOMAIN CandidatesOf(call.payload) :
       IsIPv4(CandidatesOf(call.payload)[i])
  /\ RdataOf(call.reply.rr, "AAAA") = <<IPv6>>
  /\ Len(call.reply.rr) = 1

\* C24 - one record per domain: after any sequence of resolves the index
\* holds at most one record per normalized domain, stored under the id
\* computed from that domain alone; a backend fetch for a domain that has a
\* record already replaces it and adds none.
C24_OneRecordPerDomain ==
  [][/\ \A i \in DOMAIN qdrant' :
          /\ i = vector_id(qdrant'[i].payload.domain)
          /\ \A j \in DOMAIN qdrant' :
               qdrant'[j].payload.domain = qdrant'[i].payload.domain => j = i
     /\ (/\ QueryStep
         /\ call'.upserts = 1
         /\ call'.env.upsertOk
         /\ \E i \in DOMAIN qdrant :
              qdrant[i].payload.domain = Key(call'.qname))
        => /\ DOMAIN qdrant' = DOMAIN qdrant
           /\ qdrant'[vector_id(Key(call'.qname))].payload.payload
                = call'.payload]_vars

\* the second backend fetch of one domain, both written to the index, which
\* holds one record
C24_Witness ==
  /\ call # NoCall
  /\ call.path = "backend"
  /\ call.upserts = 1
  /\ call.env.upsertOk
  /\ stats.backendFetches = 2
  /\ stats.errors = 0
  /\ Cardinality(DOMAIN qdrant) = 1

\* C27 - a prediction keeps the record's expiry: the cache entry a resolve
\* creates by accepting a prediction has exactly the expires_at of the index
\* record the prediction was taken from, which is the expiry computed by
\* the backend fetch that wrote the record.
C27_PredictionKeepsExpiry ==
  [][(QueryStep /\ call'.path = "predicted")
     => LET k == Key(call'.qname)
            hit == qdrant[Nearest(qdrant, k)].payload
        IN /\ cache'[k].expires_at = hit.expires_at
           /\ call'.expires_at = hit.expires_at
           /\ hit.expires_at <= lastFetch[hit.domain].expires_at
           /\ \A f \in DOMAIN hit.payload :
                cache'[k].payload[f] = hit.payload[f]]_vars

\* a prediction served one second after the fetch that produced the record:
\* its cache entry expires when the record does, not a full ttl later
C27_Witness ==
  /\ call # NoCall
  /\ call.path = "predicted"
  /\ call.now = 1
  /\ cache[Key(call.qname)].expires_at = DefaultCacheTtl
  /\ call.expires_at = DefaultCacheTtl

\* the payload dicts the cache and the index refer to
Referenced(m) ==
  {m.cache[d].payload : d \in DOMAIN m.cache}
    \cup {m.index[i].payload.payload : i \in DOMAIN m.index}

\* the cache entry of domain d was written in this step as a prediction
PredictionCached(d) ==
  /\ d \in DOMAIN mem'.cache
  /\ Get(mem.cache, d) # mem'.cache[d]
  /\ "predicted" \in DOMAIN mem'.heap[mem'.cache[d].payload]

\* C25 - payload immutability: no step changes a payload dict the cache or
\* the index refers to; caching a prediction for a domain changes no index
\* record and no other domain's cache entry, the predicted flag being set on
\* a dict of its own; and whenever a domain's cache entry changes, the new
\* entry refers to a dict that did not exist before.
C25_PayloadImmutable ==
  [][/\ \A o \in Referenced(mem) : mem'.heap[o] = mem.heap[o]
     /\ \A d \in DOMAIN mem'.cache :
          Get(mem.cache, d) # mem'.cache[d]
          => /\ mem'.cache[d].payload \notin DOMAIN mem.heap
             /\ \A e \in DOMAIN mem.cache \ {d} :
                  mem'.cache[e] = mem.cache[e]
     /\ \A d \in ObjectDomains :
          PredictionCached(d) => mem'.index = mem.index]_vars

\* a prediction cached for one domain from the record of another whose
\* cache entry and index record share one dict, which carries no flag
C25_Witness ==
  \E x \in DOMAIN mem.cache : \E y \in DOMAIN mem.cache \ {x} :
    /\ "predicted" \in DOMAIN mem.heap[mem.cache[x].payload]
    /\ "predicted" \notin DOMAIN mem.heap[mem.cache[y].payload]
    /\ vector_id(y) \in DOMAIN mem.index
    /\ mem.index[vector_id(y)].payload.payload = mem.cache[y].payload
    /\ mem.cache[x].payload # mem.cache[y].payload

\* thread t has come to the end of a resolve_domain call that fetched
\* domain d from the backend
Fetched(t, d) ==
  /\ threads[t].pc = "done"
  /\ threads[t].path = "backend"
  /\ threads[t].domain = d

\* C23 - duplicate fetch race: when two overlapping resolve calls for one
\* domain have both missed the cache and the index and both fetched from
\* the backend, backendFetches has counted both fetches, and the cache
\* entry of the domain is, in full, the record one of the two produced.
C23_DuplicateFetch ==
  \A t \in Threads : \A u \in Threads \ {t} : \A d \in DOMAIN cache :
    (Fetched(t, d) /\ Fetched(u, d))
    => /\ stats.backendFetches = 2
       /\ cache[d] \in {threads[t].record, threads[u].record}

\* C28 - a fetched entry is not replaced by a prediction: no step replaces
\* a cache entry that was written by a backend fetch and has not expired
\* by an entry marked predicted.
C28_FetchedNotOverwritten ==
  [][\A d \in DOMAIN cache :
       (cache[d].expires_at > clock
          /\ "predicted" \notin DOMAIN cache[d].payload)
       => "predicted" \notin DOMAIN cache'[d].payload]_vars

\* C29 - cache and index agree: once every resolve call has come to its
\* end and no index search, backend call or index write has failed, every
\* domain whose cache entry came from a backend fetch has an index record
\* with the payload and the expires_at of that cache entry.
C29_CacheIndexAgree ==
  ((\A t \in Threads : threads[t].pc \in {"idle", "done"})
     /\ incs.errors = 0)
  => \A d \in DOMAIN cache :
       "predicted" \notin DOMAIN cache[d].payload
       => /\ vector_id(d) \in DOMAIN qdrant
          /\ qdrant[vector_id(d)].payload.payload = cache[d].payload
          /\ qdrant[vector_id(d)].payload.expires_at = cache[d].expires_at

\* C26 - concurrent introspection: a dump_cache call that iterates the
\* cache while resolve calls insert domains comes to its end without an
\* error, with the summaries of the entries.
C26_DumpCacheCompletes ==
  \A t \in Threads : threads[t].pc = "dumped" => ~threads[t].raised


\* C30: the handle is held only for a server whose thread was started: a
\* start_dns call whose start_thread() fails returns with no handle set, so
\* that a later start_dns call can start the listener
C30_HandleOnlyWhenStarted ==
  [][\A t \in Threads :
       (/\ op[t].pc = "start_thread"
        /\ op'[t] = Idle
        /\ ~servers'[dnsServer].alive) => ~ListenerSet(dnsServer')]_vars

====
